---- MODULE Spec2Model ----
(***************************************************************************)
(* Model of the deadline engine of legal-toolkit:                          *)
(*   legal_toolkit/holidays.py   BankHolidayProvider (resolution chain and *)
(*                               business-day arithmetic)                  *)
(*   legal_toolkit/deadlines.py  calculate_deemed_service,                 *)
(*                               calculate_cpr_deadline                    *)
(*   app.py                      show_dashboard, deadline tab              *)
(*                                                                         *)
(* A datetime.date is its day number, day 0 being a Monday, so that        *)
(* date.weekday() is the day number modulo 7.  A datetime.time is its      *)
(* number of seconds since midnight.                                       *)
(***************************************************************************)
EXTENDS Integers, Sequences, FiniteSets

VARIABLES
    prov_holidays,  \* provider.holidays of the provider handed to the calculator
    call,           \* the last deadline operation invoked and its inputs
    result,         \* what that operation returned, raised, logged
    prev,           \* history: an earlier calculation kept for comparison
    live,           \* what a GET of API_URL answers at present
    cache_dir,      \* whether ~/.legal_toolkit exists
    cache_file,     \* contents of bank_holidays_cache.json
    cache_perm,     \* access the process has to the cache location
    seed_file,      \* the shipped bank_holidays.json
    pc,             \* position of each construction of a BankHolidayProvider
    jurisdiction,   \* self.jurisdiction of each construction
    data,           \* the local variable data of _load_data
    holidays,       \* self.holidays once construction has completed
    exc,            \* the exception a construction raised to its caller
    cache0,         \* history: the cache file as the construction found it
    hist            \* history: the sources a construction has consulted,
                    \* each with the kind of answer it gave

calc_vars == <<prov_holidays, call, result, prev>>
env_vars == <<live, cache_dir, cache_file, cache_perm, seed_file>>
proc_vars == <<pc, jurisdiction, data, holidays, exc, cache0, hist>>
res_vars == <<live, cache_dir, cache_file, cache_perm, seed_file,
              pc, jurisdiction, data, holidays, exc, cache0, hist>>
vars == <<prov_holidays, call, result, prev, live, cache_dir, cache_file,
          cache_perm, seed_file, pc, jurisdiction, data, holidays, exc,
          cache0, hist>>

(***************************************************************************)
(* Bounds                                                                  *)
(***************************************************************************)
\* number of weeks in which holidays may fall
HolidayWeeks == 4
\* largest number of holidays a provider holds in the deadline model
MaxHolidays == 2

HolidayWindow == 0 .. (7 * HolidayWeeks - 1)
\* the subsets of S of at most k elements
RECURSIVE SetsUpTo(_, _)
SetsUpTo(S, k) ==
    IF k = 0 THEN {{}}
    ELSE LET T == SetsUpTo(S, k - 1)
         IN  T \cup {t \cup {x} : t \in T, x \in S}
HolidaySets == SetsUpTo(HolidayWindow, MaxHolidays)

\* transmission dates: one full week, Monday to Sunday
SentDates == 0 .. 6
\* transmission times: 12:00:00, 16:30:00, 16:30:01, 17:00:00
SentTimes == {43200, 59400, 59401, 61200}
\* values passed as extension_days
ExtArgs == {0 - 1, 0, 28, 29}
\* largest days_to_add passed to add_business_days
MaxSteps == 3
StepCounts == 0 .. MaxSteps
\* a calendar that lists every day of the window as a holiday
CorruptedCalendar == HolidayWindow

(***************************************************************************)
(* BankHolidayProvider: business-day arithmetic (holidays.py 68-91)        *)
(***************************************************************************)
Weekday(d) == d % 7

is_holiday(H, d) == d \in H

is_business_day_sunday(H, d) ==
    IF Weekday(d) > 5 THEN FALSE ELSE ~is_holiday(H, d)
is_business_day(H, d) ==
    IF Weekday(d) >= 5 THEN FALSE ELSE ~is_holiday(H, d)

\* the while loop of next_business_day
RECURSIVE nbd_loop(_, _)
nbd_loop(H, current) ==
    IF ~is_business_day(H, current) THEN nbd_loop(H, current + 1) ELSE current

next_business_day_from_same(H, d) == nbd_loop(H, d)
next_business_day(H, d) == nbd_loop(H, d + 1)

RECURSIVE add_business_days(_, _, _)
add_business_days_calendar(H, start, n) == start + n
add_business_days_once(H, start, n) ==
    IF n <= 0 THEN start ELSE next_business_day(H, start)
add_business_days(H, start, n) ==
    IF n <= 0 THEN start
    ELSE add_business_days(H, next_business_day(H, start), n - 1)

(***************************************************************************)
(* calculate_deemed_service (deadlines.py 21-73)                           *)
(***************************************************************************)
\* datetime.time(16, 30)
cutoff_time == 16 * 3600 + 30 * 60

is_late_ge(t) == t >= cutoff_time
is_late(t) == t > cutoff_time

\* a late transmission moved on by two business days
effective_date_late_twice(H, sd, st) ==
    IF ~is_business_day(H, sd) THEN next_business_day(H, sd)
    ELSE IF is_late(st) THEN next_business_day(H, next_business_day(H, sd))
    ELSE sd

effective_date(H, sd, st) ==
    IF ~is_business_day(H, sd) \/ is_late(st)
    THEN next_business_day(H, sd)
    ELSE sd

deemed_date_first(H, e) == add_business_days(H, e, 1)
deemed_date(H, e) == add_business_days(H, e, 2)

base_deadline_same_day(deemed) == deemed
base_deadline(deemed) == deemed + 14

final_deadline_next_day(H, base) ==
    IF ~is_business_day(H, base) THEN base + 1 ELSE base
final_deadline(H, base) ==
    IF ~is_business_day(H, base) THEN next_business_day(H, base) ELSE base

\* the parameters of def calculate_deemed_service(sent_at, provider)
Signature_with_extension == {"sent_at", "provider", "extension_days"}
Signature == {"sent_at", "provider"}

\* the argument names of a call
ArgNames(has_ext) ==
    {"sent_at", "provider"} \cup (IF has_ext THEN {"extension_days"} ELSE {})

NoCall ==
    [op |-> "none", sent |-> <<>>, has_ext |-> FALSE, ext |-> 0,
     parse_ok |-> TRUE, substituted |-> FALSE]

NoResult ==
    [status |-> "none", exc |-> "", ret |-> <<>>, logged |-> <<>>,
     error_reported |-> FALSE]

\* nothing kept yet
NoPrev == [sent |-> <<>>, holidays |-> {}, hist |-> <<>>, ret |-> <<>>]

\* Outcome of calculate_deemed_service(sent_at, provider[, extension_days=ext]):
\* a keyword the signature does not have raises TypeError before the body runs.
DeemedServiceOutcome(H, sd, st, has_ext) ==
    IF ~(ArgNames(has_ext) \subseteq Signature)
    THEN [status |-> "raised", exc |-> "TypeError", ret |-> <<>>,
          logged |-> <<>>, error_reported |-> FALSE]
    ELSE LET e == effective_date(H, sd, st)
             d == deemed_date(H, e)
             f == final_deadline(H, base_deadline(d))
         IN  [status |-> "returned", exc |-> "", ret |-> <<d, f>>,
              logged |-> <<e, d, f>>, error_reported |-> FALSE]

\* a direct call, as the tests make it
CalculateDeemedService(sd, st, has_ext, ext) ==
    /\ call.op = "none"
    /\ call' = [op |-> "calculate_deemed_service", sent |-> <<sd, st>>,
                has_ext |-> has_ext, ext |-> ext,
                parse_ok |-> TRUE, substituted |-> FALSE]
    /\ result' = DeemedServiceOutcome(prov_holidays, sd, st, has_ext)
    /\ UNCHANGED <<prov_holidays, prev, res_vars>>

(***************************************************************************)
(* Input strings.  A date string is a pair <<week, weekday>> that parses   *)
(* to the date 7*week + weekday when its fields are in range, as           *)
(* "YYYY-MM-DD" parses to a date when its month and day are; a time string *)
(* is a pair <<hour, minute>> read with "%H:%M".                           *)
(***************************************************************************)
DateStrs == {<<0, d>> : d \in 0 .. 7}
TimeStrs == {<<12, 0>>, <<16, 30>>, <<16, 31>>, <<24, 0>>}

\* utils.parse_date: raises ValueError when no date can be read
DateParses(s) == s[1] >= 0 /\ s[2] \in 0 .. 6
parse_date(s) == 7 * s[1] + s[2]

\* datetime.datetime.strptime(time_str, "%H:%M").time()
TimeParses(s) == s[1] \in 0 .. 23 /\ s[2] \in 0 .. 59
strptime_time(s) == 3600 * s[1] + 60 * s[2]

(***************************************************************************)
(* calculate_cpr_deadline (deadlines.py 75-104); the provider has been     *)
(* constructed at line 85                                                  *)
(***************************************************************************)
CalculateCprDeadline(date_str, time_str) ==
    /\ call.op = "none"
    /\ IF ~DateParses(date_str) \/ ~TimeParses(time_str)
       THEN \* except ValueError: logger.error(...); return
            /\ call' = [op |-> "calculate_cpr_deadline", sent |-> <<>>,
                        has_ext |-> FALSE, ext |-> 0,
                        parse_ok |-> FALSE, substituted |-> FALSE]
            /\ result' = [status |-> "returned", exc |-> "", ret |-> <<>>,
                          logged |-> <<>>, error_reported |-> TRUE]
       ELSE LET sd == parse_date(date_str)
                st == strptime_time(time_str)
                out == DeemedServiceOutcome(prov_holidays, sd, st, FALSE)
            IN  /\ call' = [op |-> "calculate_cpr_deadline",
                            sent |-> <<sd, st>>,
                            has_ext |-> FALSE, ext |-> 0,
                            parse_ok |-> TRUE, substituted |-> FALSE]
                \* line 104 drops the returned pair: the function returns None
                /\ result' = [out EXCEPT !.ret = <<>>]
    /\ UNCHANGED <<prov_holidays, prev, res_vars>>

(***************************************************************************)
(* main, command "deadline" (main.py 34-50).  calculate_cpr_deadline       *)
(* returns None on both of its paths (deadlines.py 99, 104), so the test   *)
(* "error" in result of line 39 raises TypeError and neither branch of     *)
(* the if is entered; the interpreter prints the traceback and exits.      *)
(***************************************************************************)
\* what calculate_cpr_deadline has logged and reported when it returns
CprDeadlineOutcome(H, date_str, time_str) ==
    IF ~DateParses(date_str) \/ ~TimeParses(time_str)
    THEN [status |-> "returned", exc |-> "", ret |-> <<>>,
          logged |-> <<>>, error_reported |-> TRUE]
    ELSE [DeemedServiceOutcome(H, parse_date(date_str),
                               strptime_time(time_str), FALSE)
             EXCEPT !.ret = <<>>]

\* "error" in result, where result is the None that was returned
ErrorInResult(res) == [res EXCEPT !.status = "raised", !.exc = "TypeError"]

\* the status the process exits with: 1 after sys.exit(1) or an exception
\* that nothing caught, 0 when main returns
ExitStatus(res) == IF res.status = "raised" THEN 1 ELSE 0

MainDeadline(date_str, time_str) ==
    /\ call.op = "none"
    /\ call' = [op |-> "main_deadline",
                sent |-> IF DateParses(date_str) /\ TimeParses(time_str)
                         THEN <<parse_date(date_str), strptime_time(time_str)>>
                         ELSE <<>>,
                has_ext |-> FALSE, ext |-> 0,
                parse_ok |-> DateParses(date_str) /\ TimeParses(time_str),
                substituted |-> FALSE]
    /\ result' = ErrorInResult(
                     CprDeadlineOutcome(prov_holidays, date_str, time_str))
    /\ UNCHANGED <<prov_holidays, prev, res_vars>>

(***************************************************************************)
(* show_dashboard, deadline tab, "Calculate Deadlines" pressed             *)
(* (app.py 70-107).  today is what datetime.date.today() returns.          *)
(***************************************************************************)
SliderValues == {0, 28}
\* values of the time widget: 12:00, 17:00
WidgetTimes == {43200, 61200}

\* nl: the "Use natural language input" box; ext: the extension_days slider
ShowDashboardCalculate(nl, date_text, calc_date, time_input, ext, today) ==
    /\ call.op = "none"
    /\ LET failed == nl /\ ~DateParses(date_text)
           date_input == IF nl
                         THEN IF DateParses(date_text)
                              THEN parse_date(date_text)
                              ELSE today       \* app.py 79-81
                         ELSE calc_date
           out == DeemedServiceOutcome(prov_holidays, date_input, time_input,
                                       TRUE)
       IN  /\ call' = [op |-> "show_dashboard",
                       sent |-> <<date_input, time_input>>,
                       has_ext |-> TRUE, ext |-> ext,
                       parse_ok |-> ~failed, substituted |-> failed]
           /\ result' = [out EXCEPT !.error_reported = failed]
    /\ UNCHANGED <<prov_holidays, prev, res_vars>>

\* the caller has consumed the outcome; the next operation may be invoked
Consume ==
    /\ call.op # "none"
    /\ call' = NoCall
    /\ result' = NoResult
    /\ UNCHANGED <<prov_holidays, prev, res_vars>>

(***************************************************************************)
(* Calls of the provider's calendar methods (holidays.py 72-91) on the     *)
(* provider's holiday set; call.sent holds the arguments after self.       *)
(***************************************************************************)
MethodCall(name, args) == [NoCall EXCEPT !.op = name, !.sent = args]
Returned(v) == [NoResult EXCEPT !.status = "returned", !.ret = <<v>>]

\* provider.is_holiday(d), made to load the set again from the cache file
\* (none when that is absent or unusable) before answering
IsHoliday_reloading(d) ==
    /\ call.op = "none"
    /\ call' = MethodCall("is_holiday", <<d>>)
    /\ prov_holidays' = IF cache_file.kind = "map"
                        THEN {parse_date(x) :
                                 x \in cache_file.body["england-and-wales"].events}
                        ELSE {}
    /\ result' = Returned(is_holiday(prov_holidays', d))
    /\ UNCHANGED <<prev, res_vars>>

\* provider.is_holiday(d)
IsHoliday(d) ==
    /\ call.op = "none"
    /\ call' = MethodCall("is_holiday", <<d>>)
    /\ result' = Returned(is_holiday(prov_holidays, d))
    /\ UNCHANGED <<prov_holidays, prev, res_vars>>

\* provider.is_business_day(d)
IsBusinessDay(d) ==
    /\ call.op = "none"
    /\ call' = MethodCall("is_business_day", <<d>>)
    /\ result' = Returned(is_business_day(prov_holidays, d))
    /\ UNCHANGED <<prov_holidays, prev, res_vars>>

\* provider.next_business_day(d)
NextBusinessDay(d) ==
    /\ call.op = "none"
    /\ call' = MethodCall("next_business_day", <<d>>)
    /\ result' = Returned(next_business_day(prov_holidays, d))
    /\ UNCHANGED <<prov_holidays, prev, res_vars>>

\* provider.add_business_days(d, n)
AddBusinessDays(d, n) ==
    /\ call.op = "none"
    /\ call' = MethodCall("add_business_days", <<d, n>>)
    /\ result' = Returned(add_business_days(prov_holidays, d, n))
    /\ UNCHANGED <<prov_holidays, prev, res_vars>>

(***************************************************************************)
(* BankHolidayProvider: construction and _load_data (holidays.py 16-66)    *)
(*                                                                         *)
(* A JSON document is a record: kind "falsy" is a document that decodes to *)
(* a false value ({} or null), kind "map" one that decodes to a non-empty  *)
(* mapping; body gives, for each jurisdiction, whether the mapping has the *)
(* key and the date strings of the events under it.                        *)
(***************************************************************************)
Jurisdictions == {"england-and-wales", "scotland"}
\* the constructions that may be in progress
Procs == {1, 2}

\* largest number of events in one document
MaxEvents == 1

\* date strings of events: day 0, day 8, and one that is no date
EventDateStrs == {<<0, 0>>, <<1, 1>>, <<0, 7>>}

Entries == [present : BOOLEAN, events : SetsUpTo(EventDateStrs, MaxEvents)]

RECURSIVE CountEvents(_, _)
CountEvents(b, js) ==
    IF js = {} THEN 0
    ELSE LET j == CHOOSE x \in js : TRUE
         IN  Cardinality(b[j].events) + CountEvents(b, js \ {j})

Bodies ==
    {b \in [Jurisdictions -> Entries] :
        /\ \A j \in Jurisdictions : ~b[j].present => b[j].events = {}
        /\ CountEvents(b, Jurisdictions) <= MaxEvents}

EmptyBody == [j \in Jurisdictions |-> [present |-> FALSE, events |-> {}]]

File(kind) == [kind |-> kind, body |-> EmptyBody]
JsonDocs == {File("falsy")} \cup [kind : {"map"}, body : Bodies]

\* answers of requests.get(API_URL, timeout=3.0) ... response.json()
LiveOutcomes ==
    {File("ConnectionError"), File("Timeout"), File("HTTPError"),
     File("undecodable")} \cup JsonDocs

CacheStates == {File("absent"), File("malformed")} \cup JsonDocs

\* the shipped seed: missing, unreadable, not JSON, or a document that
\* lists england-and-wales only
SeedBody(strs) ==
    [j \in Jurisdictions |->
        IF j = "england-and-wales" THEN [present |-> TRUE, events |-> strs]
        ELSE [present |-> FALSE, events |-> {}]]
SeedStates ==
    {File("absent"), File("unreadable"), File("malformed"),
     [kind |-> "map", body |-> SeedBody({<<1, 1>>})],
     [kind |-> "map", body |-> SeedBody({<<0, 7>>})]}

Perms == {"rw", "r", "w"}
Readable == cache_perm \in {"rw", "r"}
Writable == cache_perm \in {"rw", "w"}

NoneData == File("none")

\* Python truth value of data
Truthy(d) == d.kind = "map"

\* json.load(f) succeeds on the file
Decodes(f) == f.kind \in {"falsy", "map"}

\* datetime.datetime.strptime(e['date'], '%Y-%m-%d').date()
IsoDateValid(s) == s[1] >= 0 /\ s[2] \in 0 .. 6
strptime_date(s) == 7 * s[1] + s[2]

\* the same without response.raise_for_status()
FetchFails_no_status(l) ==
    l.kind \in {"ConnectionError", "Timeout", "undecodable"}

\* requests.RequestException or json.JSONDecodeError raised in the try block
FetchFails(l) ==
    l.kind \in {"ConnectionError", "Timeout", "HTTPError", "undecodable"}

\* line 57 with the condition false whatever was loaded
seed_wanted_never(d, seed) == FALSE

\* line 57: "not data and os.path.exists(self.seed_file)"
seed_wanted_always(d, seed) == seed.kind # "absent"
seed_wanted(d, seed) == ~Truthy(d) /\ seed.kind # "absent"

\* line 61: "not data or self.jurisdiction not in data"
returns_empty(d, j) == ~Truthy(d) \/ ~d.body[j].present

Quiescent == \A q \in Procs : pc[q] = "idle"

Raise(p, e) ==
    /\ pc' = [pc EXCEPT ![p] = "raised"]
    /\ exc' = [exc EXCEPT ![p] = e]

Goto(p, label) ==
    /\ pc' = [pc EXCEPT ![p] = label]
    /\ UNCHANGED exc

\* BankHolidayProvider(j): lines 21-24
Start(p, j) ==
    /\ pc[p] = "idle"
    /\ jurisdiction' = [jurisdiction EXCEPT ![p] = j]
    /\ cache0' = [cache0 EXCEPT ![p] = cache_file]
    /\ hist' = [hist EXCEPT ![p] = <<>>]
    /\ Goto(p, "check_dir")
    /\ UNCHANGED <<calc_vars, env_vars, data, holidays>>

\* line 27: if not os.path.exists(self.cache_dir)
CheckDir(p) ==
    /\ pc[p] = "check_dir"
    /\ Goto(p, IF cache_dir THEN "fetch" ELSE "makedirs")
    /\ UNCHANGED <<calc_vars, env_vars, jurisdiction, data, holidays, cache0, hist>>

\* line 28: os.makedirs(self.cache_dir)
MakeDirs(p) ==
    /\ pc[p] = "makedirs"
    /\ IF cache_dir
       THEN Raise(p, "FileExistsError") /\ UNCHANGED cache_dir
       ELSE IF ~Writable
       THEN Raise(p, "PermissionError") /\ UNCHANGED cache_dir
       ELSE Goto(p, "fetch") /\ cache_dir' = TRUE
    /\ UNCHANGED <<calc_vars, live, cache_file, cache_perm, seed_file,
                   jurisdiction, data, holidays, cache0, hist>>

\* lines 38-43: data = None; get, raise_for_status, response.json()
Fetch(p) ==
    /\ pc[p] = "fetch"
    /\ IF FetchFails(live)
       THEN Goto(p, "cache_exists") /\ data' = [data EXCEPT ![p] = NoneData]
       ELSE Goto(p, "open_cache") /\ data' = [data EXCEPT ![p] = live]
    /\ hist' = [hist EXCEPT ![p] = Append(@, <<"Live", live.kind>>)]
    /\ UNCHANGED <<calc_vars, env_vars, jurisdiction, holidays, cache0>>

\* line 45: open(self.cache_file, 'w') empties the file
OpenCache(p) ==
    /\ pc[p] = "open_cache"
    /\ IF ~Writable \/ ~cache_dir
       THEN /\ Raise(p, IF cache_dir THEN "PermissionError"
                        ELSE "FileNotFoundError")
            /\ UNCHANGED cache_file
       ELSE Goto(p, "dump") /\ cache_file' = File("truncated")
    /\ UNCHANGED <<calc_vars, live, cache_dir, cache_perm, seed_file,
                   jurisdiction, data, holidays, cache0, hist>>

\* line 46: json.dump(data, f), and the file is closed
Dump(p) ==
    /\ pc[p] = "dump"
    /\ cache_file' = data[p]
    /\ Goto(p, "reduce")
    /\ UNCHANGED <<calc_vars, live, cache_dir, cache_perm, seed_file,
                   jurisdiction, data, holidays, cache0, hist>>

\* line 49: if os.path.exists(self.cache_file)
CacheExists(p) ==
    /\ pc[p] = "cache_exists"
    /\ Goto(p, IF cache_file.kind # "absent" THEN "cache_load"
               ELSE "seed_check")
    /\ UNCHANGED <<calc_vars, env_vars, jurisdiction, data, holidays, cache0, hist>>

\* lines 50-54: open(self.cache_file, 'r'), json.load, except JSONDecodeError
CacheLoad(p) ==
    /\ pc[p] = "cache_load"
    /\ IF ~Readable
       THEN Raise(p, "PermissionError") /\ UNCHANGED data
       ELSE /\ Goto(p, "seed_check")
            /\ data' = [data EXCEPT ![p] =
                           IF Decodes(cache_file) THEN cache_file ELSE @]
    /\ hist' = [hist EXCEPT ![p] = Append(@, <<"Cache", cache_file.kind>>)]
    /\ UNCHANGED <<calc_vars, env_vars, jurisdiction, holidays, cache0>>

\* line 57
SeedCheck(p) ==
    /\ pc[p] = "seed_check"
    /\ Goto(p, IF seed_wanted(data[p], seed_file) THEN "seed_load"
               ELSE "reduce")
    /\ UNCHANGED <<calc_vars, env_vars, jurisdiction, data, holidays, cache0, hist>>

\* lines 58-59: open(self.seed_file, 'r'), json.load, inside the handler
SeedLoad(p) ==
    /\ pc[p] = "seed_load"
    /\ IF seed_file.kind = "unreadable"
       THEN Raise(p, "PermissionError") /\ UNCHANGED data
       ELSE IF ~Decodes(seed_file)
       THEN Raise(p, "JSONDecodeError") /\ UNCHANGED data
       ELSE Goto(p, "reduce") /\ data' = [data EXCEPT ![p] = seed_file]
    /\ hist' = [hist EXCEPT ![p] = Append(@, <<"Seed", seed_file.kind>>)]
    /\ UNCHANGED <<calc_vars, env_vars, jurisdiction, holidays, cache0>>

\* lines 61-66 and the assignment of line 30
Reduce(p) ==
    /\ pc[p] = "reduce"
    /\ LET j == jurisdiction[p]
           events == data[p].body[j].events
       IN  IF returns_empty(data[p], j)
           THEN Goto(p, "done") /\ holidays' = [holidays EXCEPT ![p] = {}]
           ELSE IF \E s \in events : ~IsoDateValid(s)
           THEN Raise(p, "ValueError") /\ UNCHANGED holidays
           ELSE /\ Goto(p, "done")
                /\ holidays' = [holidays EXCEPT ![p] =
                                   {strptime_date(s) : s \in events}]
    /\ UNCHANGED <<calc_vars, env_vars, jurisdiction, data, cache0, hist>>

\* the caller is through with the provider, or with the exception
Release(p) ==
    /\ pc[p] \in {"done", "raised"}
    /\ pc' = [pc EXCEPT ![p] = "idle"]
    /\ jurisdiction' = [jurisdiction EXCEPT ![p] = ""]
    /\ data' = [data EXCEPT ![p] = NoneData]
    /\ holidays' = [holidays EXCEPT ![p] = {}]
    /\ exc' = [exc EXCEPT ![p] = ""]
    /\ cache0' = [cache0 EXCEPT ![p] = NoneData]
    /\ hist' = [hist EXCEPT ![p] = <<>>]
    /\ UNCHANGED <<calc_vars, env_vars>>

\* what a constructed provider holds for its caller: the attributes set in
\* lines 21-30 (the three paths are the same for every provider)
ProviderAttrs(p) ==
    [jurisdiction |-> jurisdiction[p],
     cache_dir |-> "~/.legal_toolkit",
     cache_file |-> "~/.legal_toolkit/bank_holidays_cache.json",
     seed_file |-> "legal_toolkit/bank_holidays.json",
     holidays |-> holidays[p]]

\* the network, or what GOV.UK serves, changes
NetworkChange(l) ==
    /\ live # l
    /\ live' = l
    /\ UNCHANGED <<calc_vars, cache_dir, cache_file, cache_perm, seed_file,
                   proc_vars>>

\* no construction in progress
ProcsIdle ==
    /\ pc = [p \in Procs |-> "idle"]
    /\ jurisdiction = [p \in Procs |-> ""]
    /\ data = [p \in Procs |-> NoneData]
    /\ holidays = [p \in Procs |-> {}]
    /\ exc = [p \in Procs |-> ""]
    /\ cache0 = [p \in Procs |-> NoneData]
    /\ hist = [p \in Procs |-> <<>>]

(***************************************************************************)
(* Specification of the deadline calculator                                *)
(***************************************************************************)
Init ==
    /\ prov_holidays \in HolidaySets
    /\ call = NoCall
    /\ result = NoResult
    /\ prev = NoPrev
    /\ live = File("ConnectionError")
    /\ cache_dir = TRUE
    /\ cache_file = File("absent")
    /\ cache_perm = "rw"
    /\ seed_file = File("absent")
    /\ ProcsIdle

Next ==
    \/ \E sd \in SentDates, st \in SentTimes :
          CalculateDeemedService(sd, st, FALSE, 0)
    \/ \E sd \in SentDates, st \in SentTimes, e \in ExtArgs :
          CalculateDeemedService(sd, st, TRUE, e)
    \/ \E ds \in DateStrs, ts \in TimeStrs : CalculateCprDeadline(ds, ts)
    \/ \E ds \in DateStrs, ts \in TimeStrs : MainDeadline(ds, ts)
    \/ \E d \in SentDates, t \in WidgetTimes, e \in SliderValues :
          ShowDashboardCalculate(FALSE, <<0, 0>>, d, t, e, d)
    \/ \E ds \in DateStrs, t \in WidgetTimes, e \in SliderValues,
          today \in SentDates :
          ShowDashboardCalculate(TRUE, ds, today, t, e, today)
    \/ Consume

Spec == Init /\ [][Next]_vars

(***************************************************************************)
(* Specification of the calendar methods: a provider holding any of the    *)
(* holiday sets, or the corrupted calendar, answers calls of its methods.  *)
(***************************************************************************)
InitCalendar ==
    /\ prov_holidays \in HolidaySets \cup {CorruptedCalendar}
    /\ call = NoCall
    /\ result = NoResult
    /\ prev = NoPrev
    /\ live = File("ConnectionError")
    /\ cache_dir = TRUE
    /\ cache_file = File("absent")
    /\ cache_perm = "rw"
    /\ seed_file = File("absent")
    /\ ProcsIdle

NextCalendar ==
    \/ \E d \in HolidayWindow : IsHoliday(d)
    \/ \E d \in HolidayWindow : IsBusinessDay(d)
    \/ \E d \in HolidayWindow : NextBusinessDay(d)
    \/ \E d \in SentDates, n \in StepCounts : AddBusinessDays(d, n)
    \/ \E sd \in SentDates, st \in SentTimes :
          CalculateDeemedService(sd, st, FALSE, 0)
    \/ Consume

SpecCalendar == InitCalendar /\ [][NextCalendar]_vars

(***************************************************************************)
(* Specification of the provider: constructions run one at a time          *)
(***************************************************************************)
InitResolve ==
    /\ prov_holidays = {}
    /\ call = NoCall
    /\ result = NoResult
    /\ prev = NoPrev
    /\ live \in LiveOutcomes
    /\ cache_perm \in Perms
    /\ seed_file \in SeedStates
    /\ \/ cache_dir = FALSE /\ cache_file = File("absent")
       \/ cache_dir = TRUE /\ cache_file \in CacheStates
    /\ ProcsIdle

NextResolve ==
    \/ \E p \in Procs, j \in Jurisdictions : Quiescent /\ Start(p, j)
    \/ \E p \in Procs : CheckDir(p)
    \/ \E p \in Procs : MakeDirs(p)
    \/ \E p \in Procs : Fetch(p)
    \/ \E p \in Procs : OpenCache(p)
    \/ \E p \in Procs : Dump(p)
    \/ \E p \in Procs : CacheExists(p)
    \/ \E p \in Procs : CacheLoad(p)
    \/ \E p \in Procs : SeedCheck(p)
    \/ \E p \in Procs : SeedLoad(p)
    \/ \E p \in Procs : Reduce(p)
    \/ \E p \in Procs : Release(p)
    \/ \E l \in LiveOutcomes : Quiescent /\ NetworkChange(l)

SpecResolve == InitResolve /\ [][NextResolve]_vars

(***************************************************************************)
(* Constructions in two processes at once (two CLI runs, or two sessions   *)
(* of the dashboard) over the one cache directory and cache file.  Each    *)
(* step of a construction is one system call or one library call, and the  *)
(* steps of the two interleave freely.  The environment is a small one:    *)
(* the location is readable and writable and every document is well        *)
(* formed, so that a construction run alone completes.                     *)
(***************************************************************************)
Snapshot(strs) ==
    [kind |-> "map",
     body |-> [j \in Jurisdictions |->
                  [present |-> TRUE,
                   events |-> IF j = "england-and-wales" THEN strs ELSE {}]]]

LiveSnapshot == Snapshot({<<0, 0>>})
CachedSnapshot == Snapshot({<<1, 1>>})
ConcLive == {File("Timeout"), LiveSnapshot}
ConcSeeds == {File("absent"), [kind |-> "map", body |-> SeedBody({<<1, 1>>})]}

InitConc ==
    /\ prov_holidays = {}
    /\ call = NoCall
    /\ result = NoResult
    /\ prev = NoPrev
    /\ live \in ConcLive
    /\ cache_perm = "rw"
    /\ seed_file \in ConcSeeds
    /\ \/ cache_dir = FALSE /\ cache_file = File("absent")
       \/ cache_dir = TRUE /\ cache_file \in {File("absent"), CachedSnapshot}
    /\ ProcsIdle

\* the live source answers the same throughout
NextPair ==
    \/ \E p \in Procs, j \in Jurisdictions : Start(p, j)
    \/ \E p \in Procs : CheckDir(p)
    \/ \E p \in Procs : MakeDirs(p)
    \/ \E p \in Procs : Fetch(p)
    \/ \E p \in Procs : OpenCache(p)
    \/ \E p \in Procs : Dump(p)
    \/ \E p \in Procs : CacheExists(p)
    \/ \E p \in Procs : CacheLoad(p)
    \/ \E p \in Procs : SeedCheck(p)
    \/ \E p \in Procs : SeedLoad(p)
    \/ \E p \in Procs : Reduce(p)
    \/ \E p \in Procs : Release(p)

SpecPair == InitConc /\ [][NextPair]_vars

\* the network may come and go while constructions are under way
NextConc ==
    \/ NextPair
    \/ \E l \in ConcLive : NetworkChange(l)

SpecConc == InitConc /\ [][NextConc]_vars

(***************************************************************************)
(* Calculations on constructed providers, as calculate_cpr_deadline        *)
(* (deadlines.py 85, 104) and the dashboard (app.py 50, 99) make them: a   *)
(* provider is constructed, calculate_deemed_service is called with it,    *)
(* and the outcome of one calculation is kept while providers are          *)
(* constructed anew and the network comes and goes.                        *)
(***************************************************************************)
\* transmission dates and what GOV.UK may answer in these runs
AuditDates == {4, 5}
AuditLive == {File("Timeout"), CachedSnapshot}

DirectCall(sd, st) ==
    [op |-> "calculate_deemed_service", sent |-> <<sd, st>>,
     has_ext |-> FALSE, ext |-> 0, parse_ok |-> TRUE, substituted |-> FALSE]

\* calculate_deemed_service(sent_at, provider), made to take the provider's
\* holidays into account only while the live source answers
RunOn_offline(p, sd, st) ==
    /\ pc[p] = "done"
    /\ call.op = "none"
    /\ call' = DirectCall(sd, st)
    /\ result' = DeemedServiceOutcome(
                     IF live.kind = "map" THEN holidays[p] ELSE {},
                     sd, st, FALSE)
    /\ UNCHANGED <<prov_holidays, prev, res_vars>>

\* calculate_deemed_service(sent_at, provider) with the provider p
RunOn(p, sd, st) ==
    /\ pc[p] = "done"
    /\ call.op = "none"
    /\ call' = DirectCall(sd, st)
    /\ result' = DeemedServiceOutcome(holidays[p], sd, st, FALSE)
    /\ UNCHANGED <<prov_holidays, prev, res_vars>>

\* the caller keeps the outcome with the input and the set it came from
Keep(p) ==
    /\ pc[p] = "done"
    /\ call.op = "calculate_deemed_service"
    /\ prev' = [sent |-> call.sent, holidays |-> holidays[p],
                hist |-> hist[p], ret |-> result.ret]
    /\ call' = NoCall
    /\ result' = NoResult
    /\ UNCHANGED <<prov_holidays, res_vars>>

InitAudit ==
    /\ prov_holidays = {}
    /\ call = NoCall
    /\ result = NoResult
    /\ prev = NoPrev
    /\ live \in AuditLive
    /\ cache_perm = "rw"
    /\ seed_file \in ConcSeeds
    /\ \/ cache_dir = FALSE /\ cache_file = File("absent")
       \/ cache_dir = TRUE /\ cache_file \in {File("absent"), LiveSnapshot}
    /\ ProcsIdle

NextAudit ==
    \/ \E p \in Procs, j \in Jurisdictions : Quiescent /\ Start(p, j)
    \/ \E p \in Procs : CheckDir(p)
    \/ \E p \in Procs : MakeDirs(p)
    \/ \E p \in Procs : Fetch(p)
    \/ \E p \in Procs : OpenCache(p)
    \/ \E p \in Procs : Dump(p)
    \/ \E p \in Procs : CacheExists(p)
    \/ \E p \in Procs : CacheLoad(p)
    \/ \E p \in Procs : SeedCheck(p)
    \/ \E p \in Procs : SeedLoad(p)
    \/ \E p \in Procs : Reduce(p)
    \/ \E p \in Procs : call.op = "none" /\ Release(p)
    \/ \E l \in AuditLive : NetworkChange(l)
    \/ \E p \in Procs, sd \in AuditDates, st \in WidgetTimes : RunOn(p, sd, st)
    \/ \E p \in Procs : Keep(p)

SpecAudit == InitAudit /\ [][NextAudit]_vars

(***************************************************************************)
(* calculate_issue_fee (fees.py 6-33).  A claim value is a whole number of *)
(* pounds; the string returned is the sequence of its characters, the      *)
(* message for an invalid value being a single item.                       *)
(***************************************************************************)
\* claim values: within Margin of each limit of the function, and the
\* thousands up to MaxThousands
Margin == 3
MaxThousands == 250
FeeLimits == {0, 300, 500, 1000, 1500, 3000, 5000, 10000, 200000}
ClaimValues ==
    {b + i : b \in FeeLimits, i \in (0 - Margin) .. Margin}
        \cup {1000 * k : k \in 1 .. MaxThousands}

DigitChars == <<"0", "1", "2", "3", "4", "5", "6", "7", "8", "9">>

\* the decimal digits of n >= 0
RECURSIVE Digits(_)
Digits(n) ==
    IF n < 10 THEN <<DigitChars[n + 1]>>
    ELSE Digits(n \div 10) \o <<DigitChars[(n % 10) + 1]>>

\* the "," option of the format: digits in groups of three
RECURSIVE Grouped(_)
Grouped(n) ==
    IF n < 1000 THEN Digits(n)
    ELSE Grouped(n \div 1000) \o <<",">> \o
         <<DigitChars[((n % 1000) \div 100) + 1],
           DigitChars[((n % 100) \div 10) + 1],
           DigitChars[(n % 10) + 1]>>

\* f"{fee:,.2f}" of an amount given in pence
format_2f(pence) ==
    Grouped(pence \div 100) \o <<".">> \o
    <<DigitChars[((pence % 100) \div 10) + 1], DigitChars[(pence % 10) + 1]>>

\* claim_value * 0.05, in pence
fee_pence(claim_value) == claim_value * 5

\* the function with each "<=" of lines 13-27 written "<"
calculate_issue_fee_strict(claim_value) ==
    IF claim_value <= 0 THEN <<"Invalid claim value">>
    ELSE IF claim_value < 300 THEN <<"£", "3", "5">>
    ELSE IF claim_value < 500 THEN <<"£", "5", "0">>
    ELSE IF claim_value < 1000 THEN <<"£", "7", "0">>
    ELSE IF claim_value < 1500 THEN <<"£", "8", "0">>
    ELSE IF claim_value < 3000 THEN <<"£", "1", "1", "5">>
    ELSE IF claim_value < 5000 THEN <<"£", "2", "0", "5">>
    ELSE IF claim_value < 10000 THEN <<"£", "4", "5", "5">>
    ELSE IF claim_value < 200000
         THEN <<"£">> \o format_2f(fee_pence(claim_value))
    ELSE <<"£", "1", "0", ",", "0", "0", "0">>

calculate_issue_fee(claim_value) ==
    IF claim_value <= 0 THEN <<"Invalid claim value">>
    ELSE IF claim_value <= 300 THEN <<"£", "3", "5">>
    ELSE IF claim_value <= 500 THEN <<"£", "5", "0">>
    ELSE IF claim_value <= 1000 THEN <<"£", "7", "0">>
    ELSE IF claim_value <= 1500 THEN <<"£", "8", "0">>
    ELSE IF claim_value <= 3000 THEN <<"£", "1", "1", "5">>
    ELSE IF claim_value <= 5000 THEN <<"£", "2", "0", "5">>
    ELSE IF claim_value <= 10000 THEN <<"£", "4", "5", "5">>
    ELSE IF claim_value <= 200000
         THEN <<"£">> \o format_2f(fee_pence(claim_value))
    ELSE <<"£", "1", "0", ",", "0", "0", "0">>

CalculateIssueFee(v) ==
    /\ call.op = "none"
    /\ call' = [NoCall EXCEPT !.op = "calculate_issue_fee", !.sent = <<v>>]
    /\ result' = [NoResult EXCEPT !.status = "returned",
                                  !.ret = <<calculate_issue_fee(v)>>]
    /\ UNCHANGED <<prov_holidays, prev, res_vars>>

InitFees ==
    /\ prov_holidays = {}
    /\ call = NoCall
    /\ result = NoResult
    /\ prev = NoPrev
    /\ live = File("ConnectionError")
    /\ cache_dir = TRUE
    /\ cache_file = File("absent")
    /\ cache_perm = "rw"
    /\ seed_file = File("absent")
    /\ ProcsIdle

NextFees ==
    \/ \E v \in ClaimValues : CalculateIssueFee(v)
    \/ Consume

SpecFees == InitFees /\ [][NextFees]_vars

(***************************************************************************)
(* Properties of the deadline calculator.  The calendar notions they use   *)
(* are stated here on their own, not through the operators above.          *)
(***************************************************************************)
WorkingDay(H, d) == (d % 7) \notin {5, 6} /\ d \notin H

\* e is the earliest working day strictly after d
FirstWorkingDayAfter(H, d, e) ==
    /\ e > d
    /\ WorkingDay(H, e)
    /\ \A x \in (d + 1) .. (e - 1) : ~WorkingDay(H, x)

\* a calculation has run to its end and logged its three dates
Calculated == result.status = "returned" /\ Len(result.logged) = 3

\* C1: the effective step date is the first working day after the
\* transmission date when that date is not a working day or the time is
\* strictly after 16:30:00 (59400 s), and the transmission date itself
\* otherwise; Tuesday 17:00 gives Wednesday, Saturday gives Monday.
C1_EffectiveStep ==
    Calculated =>
        LET sd == call.sent[1]
            st == call.sent[2]
            e  == result.logged[1]
        IN  /\ IF ~WorkingDay(prov_holidays, sd) \/ st > 59400
               THEN FirstWorkingDayAfter(prov_holidays, sd, e)
               ELSE e = sd
            /\ (sd = 1 /\ st = 61200 /\ 2 \notin prov_holidays) => e = 2
            /\ (sd = 5 /\ 7 \notin prov_holidays) => e = 7

\* C1 witness: a Saturday transmission after the cutoff (both conditions)
\* has been calculated and moved once, to the following Monday.
C1_Witness ==
    /\ Calculated
    /\ call.sent = <<5, 61200>>
    /\ result.logged[1] = 7

AskedExtension == IF call.has_ext THEN call.ext ELSE 0

\* the deadline snapped once to a working day
Snapped(H, D, f) ==
    IF WorkingDay(H, D) THEN f = D ELSE FirstWorkingDayAfter(H, D, f)

\* C3: a call of calculate_deemed_service with no extension or one of 0..28
\* days returns the filing deadline deemed + 14 + extension, snapped once.
C3_FilingDeadline ==
    (call.op = "calculate_deemed_service" /\ AskedExtension \in 0 .. 28) =>
        /\ result.status = "returned"
        /\ Len(result.ret) = 2
        /\ Snapped(prov_holidays, result.ret[1] + 14 + AskedExtension,
                   result.ret[2])

\* C4: called with extension_days = 28, calculate_deemed_service returns a
\* filing deadline exactly 42 days after the deemed service date.
C4_Extension28 ==
    (call.op = "calculate_deemed_service" /\ call.has_ext /\ call.ext = 28) =>
        /\ result.status = "returned"
        /\ Len(result.ret) = 2
        /\ result.ret[2] = result.ret[1] + 42

\* C5: a computation given an extension outside 0..28 is rejected: it
\* raises to the caller and produces no date, logged or returned.
C5_InvalidExtension ==
    (call.op # "none" /\ call.has_ext /\ call.ext \notin 0 .. 28) =>
        /\ result.status = "raised"
        /\ result.ret = <<>>
        /\ result.logged = <<>>

\* C5 witness: a call with extension_days = 29 has been rejected.
C5_Witness ==
    /\ call.op = "calculate_deemed_service"
    /\ call.has_ext
    /\ call.ext = 29
    /\ result.status = "raised"

\* C6: when the transmission date or time cannot be parsed the failure is
\* reported, no date is computed, and no default date stands in for the
\* invalid one in a timestamp handed to the calculation.
C6_InvalidTransmission ==
    (call.op # "none" /\ ~call.parse_ok) =>
        /\ result.error_reported
        /\ result.ret = <<>>
        /\ result.logged = <<>>
        /\ ~call.substituted
        /\ call.sent = <<>>

(***************************************************************************)
(* Properties of the provider, under SpecResolve.  What a document offers  *)
(* for a jurisdiction is stated here on its own.                           *)
(***************************************************************************)
Finished(p) == pc[p] \in {"done", "raised"}

\* the document decodes as JSON
IsJson(f) == f.kind \in {"falsy", "map"}

\* the document is a mapping that has the jurisdiction
HasJurisdiction(f, j) == f.kind = "map" /\ f.body[j].present

\* ... and every event under it carries a well-formed date
FollowsSchema(f, j) ==
    /\ HasJurisdiction(f, j)
    /\ \A s \in f.body[j].events : s[2] >= 0 /\ s[2] <= 6

\* the dates of the jurisdiction's events in the document
DatesIn(f, j) == {7 * s[1] + s[2] : s \in f.body[j].events}

Unreachable == live.kind \in {"ConnectionError", "Timeout"}

\* C7: constructing a provider never raises to its caller.
C7_NeverRaises == \A p \in Procs : pc[p] # "raised"

\* C8: with the cache location readable and writable, a live or cached
\* document that decodes but lacks the jurisdiction or breaks the schema
\* counts as a failed tier: the construction completes with the dates of
\* the next lower tier that has the jurisdiction.
C8_FallThrough ==
    \A p \in Procs :
        (Finished(p) /\ cache_perm = "rw") =>
            LET j == jurisdiction[p]
                lower == IF FollowsSchema(cache0[p], j) THEN cache0[p]
                         ELSE seed_file
            IN  /\ ( /\ IsJson(live)
                     /\ ~FollowsSchema(live, j)
                     /\ FollowsSchema(lower, j) )
                   => (pc[p] = "done" /\ holidays[p] = DatesIn(lower, j))
                /\ ( /\ ~IsJson(live)
                     /\ IsJson(cache0[p])
                     /\ ~FollowsSchema(cache0[p], j)
                     /\ FollowsSchema(seed_file, j) )
                   => (pc[p] = "done" /\ holidays[p] = DatesIn(seed_file, j))

\* C9: when the live fetch has succeeded (data is the live document) and
\* the document has the jurisdiction, the construction completes, the
\* provider holds exactly the dates of that jurisdiction's events in the
\* live document, and the cache file holds the live document.
C9_LiveWins ==
    \A p \in Procs :
        ( /\ Finished(p)
          /\ IsJson(live)
          /\ data[p] = live
          /\ HasJurisdiction(live, jurisdiction[p]) ) =>
            /\ pc[p] = "done"
            /\ holidays[p] = DatesIn(live, jurisdiction[p])
            /\ cache_file = live

\* C10: with the live source unreachable and a readable, well-formed cache
\* file that has the jurisdiction, the construction completes with exactly
\* the dates of the jurisdiction's events in the cache file and leaves the
\* file as it was, so that repeating it gives the same set; and a
\* completed construction whose live fetch succeeded leaves in the cache
\* file the document its own set was reduced from, so that the next one,
\* run with the source unreachable, reproduces that set.
C10_CacheServes ==
    \A p \in Procs :
        LET j == jurisdiction[p]
        IN  /\ ( /\ Finished(p)
                 /\ Unreachable
                 /\ cache_perm \in {"rw", "r"}
                 /\ FollowsSchema(cache0[p], j) )
               => /\ pc[p] = "done"
                  /\ holidays[p] = DatesIn(cache0[p], j)
                  /\ cache_file = cache0[p]
            /\ ( /\ pc[p] = "done"
                 /\ IsJson(live)
                 /\ FollowsSchema(live, j) )
               => /\ cache_file = live
                  /\ holidays[p] = DatesIn(cache_file, j)

\* C10 witness: a construction for england-and-wales timed out on the live
\* source and took day 0 from the cache file although the seed lists day 8.
C10_Witness ==
    \E p \in Procs :
        /\ pc[p] = "done"
        /\ jurisdiction[p] = "england-and-wales"
        /\ live.kind = "Timeout"
        /\ cache_file.kind = "map"
        /\ cache_file.body["england-and-wales"].events = {<<0, 0>>}
        /\ seed_file.kind = "map"
        /\ seed_file.body["england-and-wales"].events = {<<1, 1>>}
        /\ holidays[p] = {0}

\* the cache file was missing when the construction began, or was read
\* and found not to be JSON
CacheMissingOrMalformed(p) ==
    \/ cache0[p].kind = "absent"
    \/ cache0[p].kind = "malformed" /\ Readable

\* the construction attempted the live fetch and the fetch failed
LiveFailed(p) == hist[p] # <<>> /\ FetchFails(File(hist[p][1][2]))

\* C11: when the live fetch has failed and the cache file was missing, or
\* was read and found malformed, and the seed file has the jurisdiction,
\* the construction completes with exactly the dates of the jurisdiction's
\* events in the seed file.
C11_SeedRecovers ==
    \A p \in Procs :
        ( /\ Finished(p)
          /\ LiveFailed(p)
          /\ CacheMissingOrMalformed(p)
          /\ FollowsSchema(seed_file, jurisdiction[p]) ) =>
            /\ pc[p] = "done"
            /\ holidays[p] = DatesIn(seed_file, jurisdiction[p])

\* C11 witness: a construction for england-and-wales got an HTTP error,
\* found the cache file malformed and took day 8 from the seed file.
C11_Witness ==
    \E p \in Procs :
        /\ pc[p] = "done"
        /\ jurisdiction[p] = "england-and-wales"
        /\ hist[p] = << <<"Live", "HTTPError">>, <<"Cache", "malformed">>,
                        <<"Seed", "map">> >>
        /\ seed_file.body["england-and-wales"].events = {<<1, 1>>}
        /\ holidays[p] = {8}

\* the seed file is absent, unreadable or malformed
SeedUnavailable == seed_file.kind \in {"absent", "unreadable", "malformed"}

\* C12: when the live fetch has failed, the cache file was missing or
\* malformed, and the seed file is absent, unreadable, malformed or lacks
\* the jurisdiction, the construction completes with the empty set, and
\* is_business_day is then true exactly for Monday to Friday.
C12_EmptyFallback ==
    \A p \in Procs :
        ( /\ Finished(p)
          /\ LiveFailed(p)
          /\ CacheMissingOrMalformed(p)
          /\ \/ SeedUnavailable
             \/ ~HasJurisdiction(seed_file, jurisdiction[p]) ) =>
            /\ pc[p] = "done"
            /\ holidays[p] = {}
            /\ \A d \in HolidayWindow :
                   is_business_day(holidays[p], d) <=> (d % 7) \in 0 .. 4

\* the position of a source in the order Live, Cache, Seed
Rank(src) == CASE src = "Live" -> 1 [] src = "Cache" -> 2 [] src = "Seed" -> 3

\* the sources a construction has consulted so far came in the order
\* Live, Cache, Seed with none repeated, the cache only after a failed
\* fetch, the seed only after a failed fetch and no mapping from the cache
ConsultedInOrder(p) ==
    LET h == hist[p]
    IN  /\ \A i \in 1 .. Len(h) : \A k \in 1 .. Len(h) :
               i < k => Rank(h[i][1]) < Rank(h[k][1])
        /\ h # <<>> => h[1][1] = "Live"
        /\ \A i \in 1 .. Len(h) :
               h[i][1] \in {"Cache", "Seed"} => FetchFails(File(h[1][2]))
        /\ \A i \in 1 .. Len(h) : \A k \in 1 .. Len(h) :
               (h[i][1] = "Seed" /\ h[k][1] = "Cache") =>
                   (h[k][2] # "map" \/ ~Readable)

\* C13: a construction consults the sources in the order Live, Cache,
\* Seed, each at most once, the cache only after the fetch has failed and
\* the seed only after the cache gave no usable data, never fetches a
\* second time, and once its resolution has begun ends with a result.
C13_FixedOrder ==
    \A p \in Procs :
        /\ ConsultedInOrder(p)
        /\ (Finished(p) /\ hist[p] # <<>>) => pc[p] = "done"

\* the part of C13 about the order alone
OrderAlone == \A p \in Procs : ConsultedInOrder(p)

\* the source whose document the set of a completed construction was
\* reduced from; Empty when no document with the jurisdiction was loaded
ActualTier(p) ==
    LET h == hist[p]
    IN  IF ~HasJurisdiction(data[p], jurisdiction[p]) THEN "Empty"
        ELSE IF ~FetchFails(File(h[1][2])) THEN "Live"
        ELSE IF \E i \in 1 .. Len(h) : h[i][1] = "Seed" THEN "Seed"
        ELSE "Cache"

\* C14: the caller of a completed construction can obtain the tier that
\* produced the set: what the provider holds determines the tier, so two
\* providers equal in every attribute were produced by the same tier.
C14_TierObtainable ==
    \A p \in Procs : \A q \in Procs :
        ( /\ pc[p] = "done"
          /\ pc[q] = "done"
          /\ ProviderAttrs(p) = ProviderAttrs(q) ) =>
            ActualTier(p) = ActualTier(q)

\* C15: a construction that reads the cache file never finds it emptied
\* by the write another construction has begun and not finished.
C15_AtomicCacheWrite ==
    \A p \in Procs : \A i \in 1 .. Len(hist[p]) :
        hist[p][i] # <<"Cache", "truncated">>

\* the set a construction gives when nothing else runs, from the live
\* answer l, the cache file c and the seed file s, all well formed
Alone(l, c, s, j) ==
    LET d1 == IF ~FetchFails(l) THEN l
              ELSE IF IsJson(c) THEN c
              ELSE NoneData
        d2 == IF d1.kind # "map" /\ s.kind = "map" THEN s ELSE d1
    IN  IF HasJurisdiction(d2, j) THEN DatesIn(d2, j) ELSE {}

\* C16: with the live source answering the same throughout, a construction
\* that ends while no other construction is for its jurisdiction has
\* completed, with the set it gives alone from the live answer, the cache
\* file it found and the seed file.
C16_Independent ==
    \A p \in Procs :
        ( /\ Finished(p)
          /\ \A q \in Procs \ {p} : jurisdiction[q] # jurisdiction[p] ) =>
            /\ pc[p] = "done"
            /\ holidays[p] =
                   Alone(live, cache0[p], seed_file, jurisdiction[p])

(***************************************************************************)
(* Properties of the calendar methods, under SpecCalendar.                 *)
(***************************************************************************)
Called(name) == call.op = name /\ result.status # "none"

\* C17: is_business_day(D) is false exactly when D is a Saturday, a
\* Sunday or a member of the holiday set, and true otherwise.
C17_BusinessDay ==
    Called("is_business_day") =>
        LET d == call.sent[1]
        IN  /\ result.status = "returned"
            /\ result.ret[1] \in BOOLEAN
            /\ result.ret[1] = FALSE <=>
                   (d % 7 = 5 \/ d % 7 = 6 \/ d \in prov_holidays)

\* C17 witness: a Wednesday that is a holiday was answered False, in a
\* calendar where the Tuesday before it is not a holiday.
C17_Witness ==
    /\ Called("is_business_day")
    /\ call.sent = <<9>>
    /\ prov_holidays = {9}
    /\ result.ret = <<FALSE>>

\* C18: next_business_day(D) is later than D, is a business day, and no
\* date between D and it is a business day, whether or not D is one.
C18_NextBusinessDay ==
    Called("next_business_day") =>
        /\ result.status = "returned"
        /\ FirstWorkingDayAfter(prov_holidays, call.sent[1], result.ret[1])

\* C18 witness: from a Friday that is a business day, with the Monday
\* after it a holiday, the answer was the Tuesday.
C18_Witness ==
    /\ Called("next_business_day")
    /\ call.sent = <<4>>
    /\ prov_holidays = {7}
    /\ result.ret = <<8>>

\* C19: next_business_day looks ahead no further than a maximum number of
\* days, shorter than the holiday window, and ends with an error when it
\* finds no business day within it.
C19_BoundedLookahead ==
    Called("next_business_day") =>
        \/ result.status = "raised"
        \/ /\ result.status = "returned"
           /\ result.ret[1] - call.sent[1] < 7 * HolidayWeeks

\* the number of business days in the interval (d, e]
BusinessDaysIn(H, d, e) ==
    Cardinality({x \in (d + 1) .. e : WorkingDay(H, x)})

\* C20: add_business_days(D, n) for n >= 0 is D itself when n = 0, and for
\* n >= 1 the business day with exactly n business days in (D, result],
\* which is next_business_day applied n times from D.
C20_AddBusinessDays ==
    Called("add_business_days") =>
        LET d == call.sent[1]
            n == call.sent[2]
            r == result.ret[1]
        IN  /\ result.status = "returned"
            /\ n = 0 => r = d
            /\ n >= 1 =>
                   /\ WorkingDay(prov_holidays, r)
                   /\ BusinessDaysIn(prov_holidays, d, r) = n

\* C20 witness: two business days from a Friday, with the Monday after it
\* a holiday, came to the Wednesday.
C20_Witness ==
    /\ Called("add_business_days")
    /\ call.sent = <<4, 2>>
    /\ prov_holidays = {7}
    /\ result.ret = <<9>>

\* C21: for a fixed start date and holiday set, add_business_days(D, n + 1)
\* is strictly later than add_business_days(D, n), for every n >= 0.
C21_StrictlyIncreasing ==
    Called("add_business_days") =>
        LET d == call.sent[1]
            n == call.sent[2]
        IN  add_business_days(prov_holidays, d, n + 1) > result.ret[1]

\* C21 witness: from a Saturday, with the Monday after it a holiday, one
\* step came to the Tuesday, and two steps come to the Wednesday.
C21_Witness ==
    /\ Called("add_business_days")
    /\ call.sent = <<5, 1>>
    /\ prov_holidays = {7}
    /\ result.ret = <<8>>
    /\ add_business_days(prov_holidays, 5, 2) = 9

(***************************************************************************)
(* Further properties of the deadline calculator, under Spec.              *)
(***************************************************************************)
\* C22: in every calculation that ran to its end, by a direct call, the
\* CLI or the dashboard, the filing deadline is strictly later than the
\* deemed service date.
C22_DeadlineAfterService ==
    Calculated =>
        /\ result.logged[3] > result.logged[2]
        /\ (call.op = "calculate_deemed_service") =>
               result.ret[2] > result.ret[1]

\* C22 witness: deemed service on a Friday whose fourteenth day after is a
\* Friday and a holiday, so that the deadline moved on to the Monday.
C22_Witness ==
    /\ Calculated
    /\ call.op = "calculate_deemed_service"
    /\ prov_holidays = {18}
    /\ result.ret = <<4, 21>>

ReadOnlyOps ==
    {"is_holiday", "is_business_day", "next_business_day",
     "add_business_days", "calculate_deemed_service"}

\* C24: a call of is_holiday, is_business_day, next_business_day,
\* add_business_days or calculate_deemed_service leaves the provider's
\* holiday set and the cache file as they were and starts no fetch or
\* construction; and no step at all changes the holiday set of the
\* provider once it is constructed.
C24_ReadOnly ==
    [][ /\ prov_holidays' = prov_holidays
        /\ (call.op = "none" /\ call'.op \in ReadOnlyOps) =>
               /\ cache_file' = cache_file
               /\ cache_dir' = cache_dir
               /\ hist' = hist
               /\ pc' = pc
               /\ holidays' = holidays ]_vars

\* C24 witness: is_holiday has answered True for day 9 on a provider that
\* holds day 9, with the cache file absent and no fetch made.
C24_Witness ==
    /\ Called("is_holiday")
    /\ call.sent = <<9>>
    /\ prov_holidays = {9}
    /\ result.ret = <<TRUE>>
    /\ cache_file = File("absent")
    /\ \A p \in Procs : hist[p] = <<>> /\ pc[p] = "idle"

\* C25: the CLI deadline command, given a date and a time that parse,
\* shows the three dates and exits with status 0; given one that does
\* not parse, it reports an error and exits with a status other than 0.
C25_CliExitStatus ==
    call.op = "main_deadline" =>
        IF call.parse_ok
        THEN /\ Len(result.logged) = 3
             /\ ExitStatus(result) = 0
        ELSE /\ result.error_reported
             /\ result.logged = <<>>
             /\ ExitStatus(result) # 0

(***************************************************************************)
(* Properties of calculate_issue_fee, under SpecFees.  The amount a        *)
(* returned string shows is read back from its characters.                 *)
(***************************************************************************)
DigitValue(ch) == CHOOSE k \in 0 .. 9 : DigitChars[k + 1] = ch

\* the number a sequence of digits writes
RECURSIVE NumberOf(_)
NumberOf(ds) ==
    IF ds = <<>> THEN 0
    ELSE 10 * NumberOf(SubSeq(ds, 1, Len(ds) - 1)) + DigitValue(ds[Len(ds)])

IsDigit(ch) == \E k \in 1 .. 10 : DigitChars[k] = ch

\* the places of "." in the string
PointAt(str) == {i \in 1 .. Len(str) : str[i] = "."}

\* the string is a pound sign, digits with or without commas, and, when
\* decimals = 2, a point and two digits
WellFormedAmount(str, decimals) ==
    /\ Len(str) >= 2
    /\ str[1] = "£"
    /\ IF decimals = 0
       THEN \A i \in 2 .. Len(str) : IsDigit(str[i]) \/ str[i] = ","
       ELSE /\ PointAt(str) = {Len(str) - 2}
            /\ \A i \in 2 .. Len(str) - 3 : IsDigit(str[i]) \/ str[i] = ","
            /\ IsDigit(str[Len(str) - 1])
            /\ IsDigit(str[Len(str)])

\* the amount in pence that a well-formed string shows
PenceOf(str) ==
    LET NotComma(c) == c # ","
        whole == IF PointAt(str) = {} THEN SubSeq(str, 2, Len(str))
                 ELSE SubSeq(str, 2, Len(str) - 3)
        frac == IF PointAt(str) = {} THEN <<"0", "0">>
                ELSE SubSeq(str, Len(str) - 1, Len(str))
    IN  100 * NumberOf(SelectSeq(whole, NotComma)) + NumberOf(frac)

\* upper limits of the fixed brackets and the fee of each, in pounds
BracketFee ==
    [b \in {300, 500, 1000, 1500, 3000, 5000, 10000} |->
        CASE b = 300 -> 35 [] b = 500 -> 50 [] b = 1000 -> 70
          [] b = 1500 -> 80 [] b = 3000 -> 115 [] b = 5000 -> 205
          [] b = 10000 -> 455]

\* the first bracket whose limit is at least v
BracketOf(v) ==
    CHOOSE b \in DOMAIN BracketFee :
        b >= v /\ \A c \in DOMAIN BracketFee : c >= v => b <= c

\* C26: calculate_issue_fee returns 'Invalid claim value' for a value of 0
\* or less; up to 10,000 the fixed fee of the first bracket that reaches
\* the value; above 10,000 and up to 200,000 inclusive 5% of the value
\* with two decimals; above 200,000 the capped pounds 10,000.
C26_IssueFee ==
    Called("calculate_issue_fee") =>
        LET v == call.sent[1]
            str == result.ret[1]
        IN  /\ v <= 0 => str = <<"Invalid claim value">>
            /\ (v > 0 /\ v <= 10000) =>
                   /\ WellFormedAmount(str, 0)
                   /\ PenceOf(str) = 100 * BracketFee[BracketOf(v)]
            /\ (v > 10000 /\ v <= 200000) =>
                   /\ WellFormedAmount(str, 2)
                   /\ 100 * PenceOf(str) = 5 * (100 * v)
            /\ v > 200000 => str = <<"£", "1", "0", ",", "0", "0", "0">>

\* C26 witness: a claim of exactly 200,000 was charged 5%, shown with
\* two decimals, not the capped string.
C26_Witness ==
    /\ Called("calculate_issue_fee")
    /\ call.sent = <<200000>>
    /\ result.ret = << <<"£", "1", "0", ",", "0", "0", "0", ".", "0", "0">> >>

\* C27: in every calculation that ran to its end the effective step date,
\* the deemed service date and the filing deadline are working days, and
\* the filing deadline is the earliest working day on or after the
\* fourteenth day after deemed service.
C27_AllBusinessDays ==
    Calculated =>
        LET e == result.logged[1]
            d == result.logged[2]
            f == result.logged[3]
        IN  /\ WorkingDay(prov_holidays, e)
            /\ WorkingDay(prov_holidays, d)
            /\ WorkingDay(prov_holidays, f)
            /\ f >= d + 14
            /\ \A x \in (d + 14) .. (f - 1) : ~WorkingDay(prov_holidays, x)

\* C27 witness: the fourteenth day after deemed service is a Friday and a
\* holiday, followed by the weekend and a Monday that is a holiday too;
\* the deadline is the Tuesday.
C27_Witness ==
    /\ Calculated
    /\ call.op = "calculate_deemed_service"
    /\ prov_holidays = {18, 21}
    /\ result.ret = <<4, 22>>

(***************************************************************************)
(* Properties of the cache file across constructions, under SpecResolve.   *)
(***************************************************************************)
\* C28: a completed construction leaves the cache file usable for every
\* jurisdiction it was usable for when the construction began: a live
\* answer without the jurisdiction, or of another shape, is not written
\* over a cache file that has it.
C28_CacheNeverRegresses ==
    \A p \in Procs : \A j \in Jurisdictions :
        (pc[p] = "done" /\ FollowsSchema(cache0[p], j)) =>
            FollowsSchema(cache_file, j)

\* the kinds of answer that are a failed fetch
FailureKinds == {"ConnectionError", "Timeout", "HTTPError", "undecodable"}

\* the construction has made its fetch, and how the fetch ended
Fetched(p) == pc[p] # "idle" /\ hist[p] # <<>>
FetchOutcome(p) == hist[p][1][2]

\* C29: from its failed fetch on, a construction leaves the cache file
\* exactly as it found it, whether it then raises or completes from the
\* cache, the seed or nothing; and a construction under which the cache
\* file has changed is one whose fetch succeeded.
C29_FailedFetchKeepsCache ==
    \A p \in Procs :
        /\ (Fetched(p) /\ FetchOutcome(p) \in FailureKinds) =>
               cache_file = cache0[p]
        /\ (pc[p] # "idle" /\ cache_file # cache0[p]) =>
               (Fetched(p) /\ FetchOutcome(p) \in {"falsy", "map"})

\* C29 witness: a construction whose fetch returned an undecodable body
\* has completed from the cache file and the file is as it was.
C29_Witness ==
    \E p \in Procs :
        /\ pc[p] = "done"
        /\ hist[p] = << <<"Live", "undecodable">>, <<"Cache", "map">> >>
        /\ cache0[p].kind = "map"
        /\ cache_file = cache0[p]
        /\ holidays[p] = {0}

(***************************************************************************)
(* Order of transmissions, under Spec.                                     *)
(***************************************************************************)
\* transmission at date sd and time st is not later than at sd2 and st2
NotLater(sd, st, sd2, st2) == sd < sd2 \/ (sd = sd2 /\ st <= st2)

\* C30: for a fixed holiday set, a transmission not later than another
\* has a deemed service date and a filing deadline not later than the
\* other's.
C30_Monotonic ==
    (call.op = "calculate_deemed_service" /\ Calculated) =>
        \A sd2 \in SentDates : \A st2 \in SentTimes :
            NotLater(call.sent[1], call.sent[2], sd2, st2) =>
                LET later == DeemedServiceOutcome(prov_holidays, sd2, st2,
                                                  FALSE)
                IN  /\ result.ret[1] <= later.ret[1]
                    /\ result.ret[2] <= later.ret[2]

\* C30 witness: Friday 17:00 gave deemed service on day 9 and the deadline
\* on day 23, and the later Saturday 12:00 gives the same two dates.
C30_Witness ==
    /\ Calculated
    /\ call.op = "calculate_deemed_service"
    /\ call.sent = <<4, 61200>>
    /\ prov_holidays = {}
    /\ result.ret = <<9, 23>>
    /\ DeemedServiceOutcome(prov_holidays, 5, 43200, FALSE).ret = <<9, 23>>

====
